---- MODULE Spec2Model ----
(***************************************************************************)
(* A model of pyemu's logging module (pyemu/logger.py) and of its          *)
(* spatial-reference resolvers (pyemu/utils/spatial_reference.py).         *)
(*                                                                         *)
(* The standard library's logging and warnings modules are the             *)
(* environment: a named logger hands every record to its handlers, a       *)
(* handler formats the record with  msg % args  and writes the text, and a *)
(* record whose formatting fails is reported on stderr and not written.    *)
(* The named logger is taken to be enabled for every severity.             *)
(***************************************************************************)
EXTENDS Integers, Sequences, FiniteSets, TLC

\* ------------------------------------------------------------------ bounds
MaxHandlers == 6      \* handler objects created by get_logger
MaxLogCalls == 3      \* records handed to the wrapped logger
MaxTimers == 2        \* TimerLog objects created
MaxClock == 2         \* wall-clock readings 0..MaxClock
MaxLines == 4         \* lines the legacy Logger writes or prints
MaxResolvers == 2     \* SpatialReference objects the factory makes
MaxWarns == 2         \* warnings a resolver raises
MaxCells == 3         \* entries of a spacing array (delr, delc)
MaxSpacing == 2       \* spacings are 1..MaxSpacing

VARIABLES
    \* the logging registry (logging.getLogger) and the legacy-mode flag
    _old_style_logging, \* logger.py:15
    handlers,           \* logger name -> list of attached handler objects
    closed,             \* ids of handlers on which close() was called
    nextHandler,        \* id of the next handler object
    lastGet,            \* history: name -> arguments of the latest legacy-mode call
    everAttached,       \* history: name -> ids of all handlers ever attached
    \* the wrapped logger of a SuperLogger, seen from its handlers
    stream,             \* texts written by the attached handler: [levelname, text]
    loggingErrors,      \* records whose formatting failed (handleError)
    warns,              \* warnings.warn calls: [category, text]
    lastCall,           \* history: the latest SuperLogger level call
    \* TimerLog objects
    timers,             \* list of [message, _finished, _error, tic, ...]
    clock,              \* datetime.now()
    \* the legacy file Logger
    items,              \* Logger.items: phrase -> start time
    self_echo,          \* Logger.echo
    self_filename,      \* Logger.filename; "" stands for None
    f,                  \* Logger.f: [lines written, closed]
    stdout,             \* lines printed
    logTimes,           \* history: phrase -> times of its log calls, in order
    lastOp,             \* history: the latest Logger call and how it ended
    \* spatial references
    heap,               \* the reference objects handed to the factory
    resolvers,          \* the SpatialReference objects made so far
    ret                 \* the latest resolver call: its input and how it ended

regVars == <<_old_style_logging, handlers, closed, nextHandler, lastGet, everAttached>>
slVars == <<stream, loggingErrors, warns, lastCall, timers, clock>>
legVars == <<items, self_echo, self_filename, f, stdout, logTimes, lastOp>>
srVars == <<heap, resolvers, ret>>
vars == <<regVars, slVars, legVars, srVars>>

\* ------------------------------------------------- the logging registry
Names == {"a", "b"}
\* a filename is a list of string parts; the empty list is ""
Filenames == {<<>>, <<"run.log">>}

\* logger.py:235  "{}.log".format(name)
DefaultFilename(name) == <<name, ".log">>

FileHandler(id, filename) == [id |-> id, kind |-> "FileHandler", target |-> filename]
StreamHandler(id) == [id |-> id, kind |-> "StreamHandler", target |-> <<"stdout">>]

RemoveAt(s, i) == SubSeq(s, 1, i - 1) \o SubSeq(s, i + 1, Len(s))

\* logging.Logger.removeHandler through SuperLogger.removeHandler:
\* list.remove drops the first occurrence, when there is one
removeHandler(hs, h) ==
    IF \E i \in 1..Len(hs) : hs[i] = h
    THEN RemoveAt(hs, CHOOSE i \in 1..Len(hs) :
                        hs[i] = h /\ \A j \in 1..(i - 1) : hs[j] # h)
    ELSE hs

\* SuperLogger.addHandler
addHandler(hs, h) == Append(hs, h)

\* logger.py:231-233: a for loop over the live handler list, which the body
\* shrinks; i is the list iterator's position (0-based), advanced once per
\* iteration whatever the body removed
RECURSIVE RemoveOldHandlers(_, _, _)
RemoveOldHandlers(hs, i, cl) ==
    IF i >= Len(hs)
    THEN [handlers |-> hs, closed |-> cl]
    ELSE LET h == hs[i + 1]
         IN RemoveOldHandlers(removeHandler(hs, h), i + 1, cl \cup {h.id})

set_old_style_logging ==
    /\ _old_style_logging' = TRUE
    /\ UNCHANGED <<handlers, closed, nextHandler, lastGet, everAttached>>
    /\ UNCHANGED <<slVars, legVars, srVars>>

get_logger(name, filename, echo) ==
    /\ nextHandler + 2 <= MaxHandlers
    /\ IF _old_style_logging
       THEN LET old == RemoveOldHandlers(handlers[name], 0, closed)
                fname == IF filename = <<>> THEN DefaultFilename(name) ELSE filename
                fh == FileHandler(nextHandler, fname)
                sh == StreamHandler(nextHandler + 1)
                new == IF echo THEN <<fh, sh>> ELSE <<fh>>
                hs1 == addHandler(old.handlers, fh)
                hs2 == IF echo THEN addHandler(hs1, sh) ELSE hs1
            IN /\ handlers' = [handlers EXCEPT ![name] = hs2]
               /\ closed' = old.closed
               /\ nextHandler' = nextHandler + Len(new)
               /\ lastGet' = [lastGet EXCEPT ![name] =
                     [called |-> TRUE, filename |-> filename, echo |-> echo]]
               /\ everAttached' = [everAttached EXCEPT
                                     ![name] = @ \cup {new[i].id : i \in 1..Len(new)}]
       ELSE UNCHANGED <<handlers, closed, nextHandler, lastGet, everAttached>>
    /\ UNCHANGED _old_style_logging
    /\ UNCHANGED <<slVars, legVars, srVars>>

InitReg ==
    /\ _old_style_logging = FALSE
    /\ handlers = [n \in Names |-> <<>>]
    /\ closed = {}
    /\ nextHandler = 0
    /\ lastGet = [n \in Names |-> [called |-> FALSE, filename |-> <<>>, echo |-> FALSE]]
    /\ everAttached = [n \in Names |-> {}]

\* ------------------------------------------------------------ SuperLogger
NoExc == [type |-> "None", value |-> ""]
NoCall == [method |-> "none", message |-> <<>>, args |-> <<>>, n |-> 0]

\* a Python value handed to the logger as a format argument: a string, or a
\* tuple of strings
PyStr(x) == [tag |-> "str", s |-> x, items |-> <<>>]
PyTuple(xs) == [tag |-> "tuple", s |-> "", items |-> xs]

\* repr of a tuple of strings, as  %s  renders it
RECURSIVE ReprItems(_)
ReprItems(xs) ==
    IF xs = <<>> THEN ""
    ELSE IF Len(xs) = 1 THEN "'" \o xs[1] \o "'"
    ELSE "'" \o xs[1] \o "', " \o ReprItems(Tail(xs))
PyRepr(v) ==
    IF v.tag = "str" THEN v.s
    ELSE IF Len(v.items) = 1 THEN "(" \o ReprItems(v.items) \o ",)"
    ELSE "(" \o ReprItems(v.items) \o ")"

\* a message is a list of parts, each a literal or the placeholder "%s"
RECURSIVE Join(_)
Join(parts) == IF parts = <<>> THEN "" ELSE Head(parts) \o Join(Tail(parts))

FormatOk(text) == [ok |-> TRUE, text |-> text]
FormatError == [ok |-> FALSE, text |-> "TypeError"]

\* msg % args  for a tuple args: every placeholder takes one argument, and it is
\* a TypeError to have too few arguments or arguments left over
RECURSIVE PercentFormat(_, _)
PercentFormat(parts, args) ==
    IF parts = <<>>
    THEN IF args = <<>> THEN FormatOk("") ELSE FormatError
    ELSE IF Head(parts) = "%s"
         THEN IF args = <<>> THEN FormatError
              ELSE LET r == PercentFormat(Tail(parts), Tail(args))
                   IN IF r.ok THEN FormatOk(PyRepr(Head(args)) \o r.text) ELSE r
         ELSE LET r == PercentFormat(Tail(parts), args)
              IN IF r.ok THEN FormatOk(Head(parts) \o r.text) ELSE r

\* logging.LogRecord.getMessage: the message is formatted only when the record
\* has arguments
getMessage(msg, args) ==
    IF args = <<>> THEN FormatOk(Join(msg)) ELSE PercentFormat(msg, args)

\* logging.Logger.debug/info/...(msg, *args) as the wrapped logger runs it:
\* the record reaches the attached handler, which writes the formatted text
\* or, when formatting fails, reports the record on stderr (handleError).
\* The result is the new <<stream, loggingErrors>>.
LoggerLog(st, levelname, msg, args) ==
    LET m == getMessage(msg, args)
    IN IF m.ok
       THEN [stream |-> Append(st.stream, [levelname |-> levelname, text |-> m.text]),
             loggingErrors |-> st.loggingErrors]
       ELSE [stream |-> st.stream, loggingErrors |-> st.loggingErrors + 1]

\* SuperLogger.debug/info/warning/error/critical(message, *args): the wrapped
\* logger is called as  self.logger.<level>(message, args, **kwargs), that is
\* with the whole tuple as its one format argument
SuperLoggerLog(st, levelname, message, args) ==
    LoggerLog(st, levelname, message, <<PyTuple(args)>>)

LogState == [stream |-> stream, loggingErrors |-> loggingErrors]

Levels == {"DEBUG", "INFO", "WARNING", "ERROR", "CRITICAL"}
Messages == {<<"hello">>, <<"x ", "%s">>, <<"x ", "%s", " ", "%s">>}
ArgLists == {<<>>, <<"p">>, <<"p", "q">>}

\* one call of a SuperLogger level method: its effect on the handler's stream
Emit(levelname, message, args) ==
    /\ Len(stream) + loggingErrors < MaxLogCalls
    /\ LET r == SuperLoggerLog(LogState, levelname, message, args)
       IN /\ stream' = r.stream
          /\ loggingErrors' = r.loggingErrors
    /\ lastCall' = [method |-> levelname, message |-> message, args |-> args,
                    n |-> Len(stream)]

LevelCall(levelname, message, args) ==
    /\ Emit(levelname, message, args)
    /\ UNCHANGED <<warns, timers, clock>>
    /\ UNCHANGED <<regVars, legVars, srVars>>

debug(message, args) == LevelCall("DEBUG", message, args)
info(message, args) == LevelCall("INFO", message, args)
warning(message, args) == LevelCall("WARNING", message, args)
error(message, args) == LevelCall("ERROR", message, args)
critical(message, args) == LevelCall("CRITICAL", message, args)

\* --------------------------------------------------------------- TimerLog
TimerMessages == {<<"load">>, <<"fit ", "%s">>}
Excs == {NoExc, [type |-> "ValueError", value |-> "bad"]}

\* the entries a call appended to the handler's stream
Appended == SubSeq(stream', Len(stream) + 1, Len(stream'))

\* logger.py:279-283
err_msg(exc) ==
    IF exc.type # "None"
    THEN " with error " \o exc.type \o "(" \o exc.value \o ")"
    ELSE ""

\* logger.py:284, the message handed to log_func
FinishedMessage(t, toc) ==
    <<"finished ">> \o t.message
        \o <<err_msg(t._error), " took: ", ToString(toc - t.tic)>>

\* SuperLogger.timed_info(message): TimerLog(self.info, message)
timed_info(message) ==
    /\ Len(timers) < MaxTimers
    /\ \E now \in clock..MaxClock :
         /\ clock' = now
         /\ Emit("INFO", <<"starting ">> \o message, <<>>)
         /\ timers' = Append(timers,
               [message |-> message, _finished |-> FALSE, _error |-> NoExc,
                tic |-> now, toc |-> now, scope |-> "open", finishes |-> 0,
                ended |-> NoExc, propagated |-> NoExc,
                startLog |-> Appended, exitLog |-> <<>>])
    /\ UNCHANGED warns
    /\ UNCHANGED <<regVars, legVars, srVars>>

\* what leaves a with statement whose block ended with exc, given what
\* __exit__ returned: a true value swallows the exception
Propagates(exc, returned) == IF returned THEN NoExc ELSE exc

\* TimerLog.__exit__ has no return statement: it returns None
ExitReturns == FALSE

\* TimerLog.finish on timer i, whose _error is exc by now
Finish(i, exc, scoped) ==
    /\ warns' = IF timers[i]._finished
                THEN Append(warns, [category |-> "UserWarning",
                        text |-> "TimerLog(" \o Join(timers[i].message)
                                    \o ") already finished"])
                ELSE warns
    /\ \E toc \in clock..MaxClock :
         /\ clock' = toc
         /\ Emit("INFO", FinishedMessage([timers[i] EXCEPT !._error = exc], toc), <<>>)
         /\ timers' = [timers EXCEPT ![i] =
               [@ EXCEPT !._finished = TRUE, !._error = exc, !.toc = toc,
                         !.scope = IF scoped THEN "closed" ELSE @,
                         !.finishes = IF scoped THEN @ ELSE @ + 1,
                         !.ended = IF scoped THEN exc ELSE @,
                         !.propagated = IF scoped
                                        THEN Propagates(exc, ExitReturns) ELSE @,
                         !.exitLog = IF scoped THEN Appended ELSE @]]

\* TimerLog.finish(), called explicitly
finish(i) ==
    /\ Finish(i, timers[i]._error, FALSE)
    /\ UNCHANGED <<regVars, legVars, srVars>>

\* TimerLog.__exit__(exc_type, exc_value, traceback) at the end of the with
\* block: it returns None, so an exception that ended the block goes on
TimerLog__exit__(i, exc) ==
    /\ timers[i].scope = "open"
    /\ Finish(i, exc, TRUE)
    /\ UNCHANGED <<regVars, legVars, srVars>>

InitLog ==
    /\ stream = <<>>
    /\ loggingErrors = 0

InitRest ==
    /\ warns = <<>>
    /\ lastCall = NoCall
    /\ timers = <<>>
    /\ clock = 0

\* ------------------------------------------------- the legacy file Logger
Phrases == {"p"}
LogFile == "out.log"
\* Logger(filename, ...): a path, True (echo only) or a false value
FilenameArgs == {LogFile, "True", ""}
Opening(fn) == "opening " \o fn \o " for logging"
AllPhrases == Phrases \cup {Opening(LogFile)}
ErrorTexts == {"boom"}

Exception(message) == [type |-> "Exception", value |-> message]
ClosedFileError == [type |-> "ValueError", value |-> "I/O operation on closed file."]

\* a line is  str(t) + text + "\n"
Line(t, text) == [t |-> t, text |-> text]

\* file.write(s): a ValueError on a closed file
f_write(file, s) ==
    IF file.closed
    THEN [f |-> file, exc |-> ClosedFileError]
    ELSE [f |-> [file EXCEPT !.lines = Append(@, s)], exc |-> NoExc]

f_close(file) == [file EXCEPT !.closed = TRUE]

\* the tail every Logger method shares: print when echoing, then write to the
\* file when there is one; the result carries the exception of the write
EchoAndWrite(st, s, always) ==
    LET out == IF st.echo \/ always THEN Append(st.stdout, s) ELSE st.stdout
    IN IF st.filename # ""
       THEN LET w == f_write(st.f, s)
            IN [st EXCEPT !.stdout = out, !.f = w.f, !.raised = w.exc]
       ELSE [st EXCEPT !.stdout = out, !.raised = NoExc]

DropKey(fn, k) == [x \in DOMAIN fn \ {k} |-> fn[x]]
PutKey(fn, k, v) == [x \in DOMAIN fn \cup {k} |-> IF x = k THEN v ELSE fn[x]]

\* Logger.statement
StatementRun(st, phrase, t) == EchoAndWrite(st, Line(t, " " \o phrase), FALSE)

\* Logger.log without line 353's  self.items.pop(phrase)
LogRun_NoPop(st, phrase, t) ==
    IF phrase \in DOMAIN st.items
    THEN EchoAndWrite(st, Line(t, " finished: " \o phrase \o " took: "
                                   \o ToString(t - st.items[phrase])), FALSE)
    ELSE LET w == EchoAndWrite(st, Line(t, " starting: " \o phrase), FALSE)
         IN IF w.raised # NoExc THEN w
            ELSE [w EXCEPT !.items = PutKey(@, phrase, t)]

\* Logger.log
LogRun(st, phrase, t) ==
    IF phrase \in DOMAIN st.items
    THEN LET s == Line(t, " finished: " \o phrase \o " took: "
                            \o ToString(t - st.items[phrase]))
             w == EchoAndWrite(st, s, FALSE)
         IN IF w.raised # NoExc THEN w
            ELSE [w EXCEPT !.items = DropKey(@, phrase)]
    ELSE LET s == Line(t, " starting: " \o phrase)
             w == EchoAndWrite(st, s, FALSE)
         IN IF w.raised # NoExc THEN w
            ELSE [w EXCEPT !.items = PutKey(@, phrase, t)]

\* Logger.warn, up to its warnings.warn
WarnRun(st, message, t) == EchoAndWrite(st, Line(t, " WARNING: " \o message), FALSE)

\* Logger.lraise without line 391's  self.f.close()
LraiseRun_NoClose(st, message, t) ==
    LET w == EchoAndWrite(st, Line(t, " ERROR: " \o message), TRUE)
    IN IF w.raised # NoExc THEN w ELSE [w EXCEPT !.raised = Exception(message)]

\* Logger.lraise
LraiseRun(st, message, t) ==
    LET w == EchoAndWrite(st, Line(t, " ERROR: " \o message), TRUE)
    IN IF w.raised # NoExc THEN w
       ELSE [w EXCEPT !.f = IF st.filename # "" THEN f_close(@) ELSE @,
                      !.raised = Exception(message)]

LegState ==
    [items |-> items, echo |-> self_echo, filename |-> self_filename, f |-> f,
     stdout |-> stdout, raised |-> NoExc]

NoFile == [lines |-> <<>>, closed |-> FALSE]

\* Logger.__init__(filename, echo)
Logger__init__(fn, ech) ==
    LET st0 == [items |-> << >>, echo |-> ech, filename |-> "", f |-> NoFile,
                stdout |-> <<>>, raised |-> NoExc]
    IN IF fn = "True" THEN [st0 EXCEPT !.echo = TRUE]
       ELSE IF fn # "" THEN LogRun([st0 EXCEPT !.filename = fn], Opening(fn), 0)
       ELSE st0

Apply(st, op, arg, t) ==
    /\ items' = st.items
    /\ f' = st.f
    /\ stdout' = st.stdout
    /\ clock' = t
    /\ lastOp' = [op |-> op, arg |-> arg, t |-> t, raised |-> st.raised,
                  nlines |-> Len(f.lines), wasClosed |-> f.closed]
    /\ UNCHANGED <<self_echo, self_filename>>

RECURSIVE LogCalls(_)
LogCalls(S) ==
    IF S = {} THEN 0
    ELSE LET ph == CHOOSE x \in S : TRUE IN Len(logTimes[ph]) + LogCalls(S \ {ph})

\* the model stops a Logger that has written, printed, warned or timed enough
Room ==
    /\ Len(f.lines) < MaxLines
    /\ Len(stdout) < MaxLines
    /\ Len(warns) < MaxLines
    /\ LogCalls(AllPhrases) < MaxLines

Logger_statement(phrase) ==
    /\ Room
    /\ \E t \in clock..MaxClock : Apply(StatementRun(LegState, phrase, t), "statement", phrase, t)
    /\ UNCHANGED <<logTimes, warns>>
    /\ UNCHANGED <<regVars, srVars, stream, loggingErrors, lastCall, timers>>

Logger_log(phrase) ==
    /\ Room
    /\ \E t \in clock..MaxClock :
         /\ Apply(LogRun(LegState, phrase, t), "log", phrase, t)
         /\ logTimes' = [logTimes EXCEPT ![phrase] = Append(@, t)]
    /\ UNCHANGED <<regVars, srVars, stream, loggingErrors, lastCall, timers, warns>>

Logger_warn(message) ==
    /\ Room
    /\ \E t \in clock..MaxClock :
         LET st == WarnRun(LegState, message, t)
         IN /\ Apply(st, "warn", message, t)
            /\ warns' = IF st.raised = NoExc
                        THEN Append(warns, [category |-> "PyemuWarning",
                                            text |-> " WARNING: " \o message])
                        ELSE warns
    /\ UNCHANGED logTimes
    /\ UNCHANGED <<regVars, srVars, stream, loggingErrors, lastCall, timers>>

Logger_lraise(message) ==
    /\ Room
    /\ \E t \in clock..MaxClock : Apply(LraiseRun(LegState, message, t), "lraise", message, t)
    /\ UNCHANGED <<logTimes, warns>>
    /\ UNCHANGED <<regVars, srVars, stream, loggingErrors, lastCall, timers>>

\* the state Logger(fn, ech) constructs
Constructed(fn, ech) ==
        LET st == Logger__init__(fn, ech)
        IN /\ items = st.items
           /\ self_echo = st.echo
           /\ self_filename = st.filename
           /\ f = st.f
           /\ stdout = st.stdout
           /\ logTimes = [ph \in AllPhrases |->
                            IF fn = LogFile /\ ph = Opening(fn) THEN <<0>> ELSE <<>>]
           /\ lastOp = [op |-> "init", arg |-> fn, t |-> 0, raised |-> NoExc,
                        nlines |-> 0, wasClosed |-> FALSE]

InitLeg == \E fn \in FilenameArgs, ech \in BOOLEAN : Constructed(fn, ech)

\* ----------------------------------------------------- spatial references
\* an optional number: a coordinate, an index, or None
Some(v) == [none |-> FALSE, v |-> v]
None == [none |-> TRUE, v |-> 0]

\* dictionary keys (SRDict): an int or a tuple of ints
KInt(n) == [kind |-> "int", n |-> n, ints |-> <<>>]
KTuple(ints) == [kind |-> "tuple", n |-> 0, ints |-> ints]
\* a value that equals no key of an SRDict (a tuple holding tuples)
NoKey == [kind |-> "nested", n |-> 0, ints |-> <<>>]

\* dictionary values: a coordinate tuple, or None
Coords(c) == [isNone |-> FALSE, c |-> c]
NoneValue == [isNone |-> TRUE, c |-> <<>>]

SRDictData ==
    (KTuple(<<1, 2>>) :> Coords(<<10, 20, 30>>)) @@ (KInt(5) :> Coords(<<50, 60>>))
        @@ (KInt(3) :> NoneValue)

GridAttrsA == {"delr", "delc", "xcentergrid", "ycentergrid"}
GridAttrsB == {"delr", "delc", "xcellcenters", "ycellcenters"}

\* twice the cell-centre coordinate of cell k along an axis with spacing d
RECURSIVE Edge(_, _)
Edge(d, k) == IF k = 0 THEN 0 ELSE d[k] + Edge(d, k - 1)
Centre2(d, k) == 2 * Edge(d, k - 1) + d[k]

\* the centre-coordinate arrays of a grid with column widths delr and row
\* heights delc, shifted by off: rows of X and Y, indexed [row][column]
XGrid(delr, delc, off) ==
    [i \in 1..Len(delc) |-> [j \in 1..Len(delr) |-> off + Centre2(delr, j)]]
YGrid(delr, delc, off) ==
    [i \in 1..Len(delc) |-> [j \in 1..Len(delr) |-> off + Centre2(delc, i)]]

Object(type, attrs, delr, delc, offA, offB, data) ==
    [type |-> type, attrs |-> attrs, delr |-> delr, delc |-> delc,
     xcentergrid |-> XGrid(delr, delc, offA), ycentergrid |-> YGrid(delr, delc, offA),
     xcellcenters |-> XGrid(delr, delc, offB), ycellcenters |-> YGrid(delr, delc, offB),
     data |-> data]

NoData == [k \in {} |-> NoneValue]

\* the objects a caller may hand to the factory: flopy-like grids in either
\* naming, one exposing both namings, a dict, a dict subclass that also
\* exposes the centre-grid attributes, an object with the spacings only, an int
Heap(delr, delc) ==
    [id \in {"sr", "mg", "both", "dict", "dictsr", "partial", "int"} |->
        CASE id = "sr" -> Object("object", GridAttrsA, delr, delc, 0, 0, NoData)
          [] id = "mg" -> Object("object", GridAttrsB, delr, delc, 0, 0, NoData)
          [] id = "both" ->
                Object("object", GridAttrsA \cup GridAttrsB, delr, delc, 0, 100, NoData)
          [] id = "dict" -> Object("dict", {}, <<>>, <<>>, 0, 0, SRDictData)
          [] id = "dictsr" -> Object("dict", GridAttrsA, delr, delc, 0, 0, SRDictData)
          [] id = "partial" -> Object("object", {"delr", "delc"}, delr, delc, 0, 0, NoData)
          [] id = "int" -> Object("int", {}, <<>>, <<>>, 0, 0, NoData)]

\* what the factory is called with: None, an object of the heap, or a resolver
CandNone == [kind |-> "None", id |-> "", r |-> 0]
CandObj(id) == [kind |-> "obj", id |-> id, r |-> 0]
CandResolver(r) == [kind |-> "resolver", id |-> "", r |-> r]
Candidates ==
    {CandNone} \cup {CandObj(id) : id \in DOMAIN heap}
        \cup {CandResolver(r) : r \in 1..Len(resolvers)}

ParentLogger == "pyemu"

\* isinstance(x, P) for a runtime-checkable protocol P of data members
IsInstanceProtocol(cand, attrs) ==
    cand.kind = "obj" /\ attrs \subseteq heap[cand.id].attrs

\* SpatialReference.__init__ (and the subclasses' __init__)
Resolver(cls, ref) ==
    [cls |-> cls, _spatial_reference |-> ref,
     logger |-> ParentLogger \o "." \o cls, add_pars_callcount |-> 0]

TypeError(message) == [type |-> "TypeError", value |-> message]
ValueError(message) == [type |-> "ValueError", value |-> message]

\* SuperLogger.logged_exception: log at error severity, return the exception
logged_exception(st, message, exc) ==
    [log |-> SuperLoggerLog(st, "ERROR", <<message>>, <<>>), exc |-> exc]

Returned(val) == [out |-> "return", val |-> val, exc |-> NoExc]
Raised(exc) == [out |-> "raise", val |-> <<>>, exc |-> exc]

\* initialize_spatial_reference: the resolvers and the log it leaves, and
\* its result (the index of the resolver returned, or the exception)
InitializeRun(rs, st, cand) ==
    LET make(cls, log) ==
            [resolvers |-> Append(rs, Resolver(cls, cand)), log |-> log,
             res |-> Returned(<<Len(rs) + 1>>)]
    IN IF cand.kind = "None" THEN make("SpatialReference", st)
       ELSE IF IsInstanceProtocol(cand, GridAttrsA)
            THEN make("FlopySRSpatialReference", st)
       ELSE IF IsInstanceProtocol(cand, GridAttrsB)
            THEN make("FlopyMGSpatialReference", st)
       ELSE IF cand.kind = "obj" /\ heap[cand.id].type = "dict"
            THEN make("DictSpatialReference",
                      SuperLoggerLog(st, "INFO",
                          <<"dictionary-based spatial reference detected...">>, <<>>))
       ELSE IF cand.kind = "resolver"
            THEN [resolvers |-> rs, log |-> st, res |-> Returned(<<cand.r>>)]
       ELSE LET e == logged_exception(st,
                        "initialize_spatial_reference() error: unsupported spatial_reference",
                        TypeError("initialize_spatial_reference() error: unsupported spatial_reference"))
            IN [resolvers |-> rs, log |-> e.log, res |-> Raised(e.exc)]

\* the history a resolver call leaves in ret
Call(op, r, input, res) ==
    [op |-> op, r |-> r, input |-> input, res |-> res,
     nstream |-> Len(stream), nwarns |-> Len(warns), nresolvers |-> Len(resolvers)]

LogRoom == Len(stream) + loggingErrors < MaxLogCalls

initialize_spatial_reference(cand) ==
    /\ Len(resolvers) < MaxResolvers
    /\ LogRoom
    /\ LET run == InitializeRun(resolvers, LogState, cand)
       IN /\ resolvers' = run.resolvers
          /\ stream' = run.log.stream
          /\ loggingErrors' = run.log.loggingErrors
          /\ ret' = Call("initialize_spatial_reference", 0, cand, run.res)
    /\ UNCHANGED <<heap, warns, lastCall, timers, clock>>
    /\ UNCHANGED <<regVars, legVars>>

\* ----------------------------------------------------------------- get_xy
\* positional index arguments and the ij_id keyword
IntArgs == {<<>>, <<1>>, <<0, 1>>, <<1, 0>>, <<1, 0, 1>>, <<0, 3>>}
KwAbsent == [has |-> FALSE, isNone |-> TRUE, ij_id |-> <<>>]
KwNone == [has |-> TRUE, isNone |-> TRUE, ij_id |-> <<>>]
KwIj(ij) == [has |-> TRUE, isNone |-> FALSE, ij_id |-> ij]
Kwargs == {KwAbsent, KwNone, KwIj(<<0, 1>>), KwIj(<<1, 0>>), KwIj(<<-1, 0>>), KwIj(<<1, 2>>)}

IndexError(message) == [type |-> "IndexError", value |-> message]

\* seq[k] as Python indexes a tuple: from the end when k < 0
PyIndex(seq, k) ==
    IF 0 <= k /\ k < Len(seq) THEN Some(seq[k + 1])
    ELSE IF k < 0 /\ -k <= Len(seq) THEN Some(seq[Len(seq) + k + 1])
    ELSE None

AmbiguousIndex(text) == [category |-> "AmbiguousIndex", text |-> text]

Outcome(res, warned) == [res |-> res, warned |-> warned]

\* SpatialReference._parse_kij_args taking the first two args for (i, j)
\* when ij_id is not given
ParseKij_FirstTwo(args, kwargs) ==
    IF Len(args) >= 2
    THEN IF kwargs.has /\ ~kwargs.isNone
         THEN Outcome(Returned(<<PyIndex(args, kwargs.ij_id[1]),
                                 PyIndex(args, kwargs.ij_id[2])>>), <<>>)
         ELSE Outcome(Returned(<<Some(args[1]), Some(args[2])>>),
                      <<AmbiguousIndex("Position of i and j in index_cols not specified, "
                            \o "assume (i,j) are final two entries in index_cols.")>>)
    ELSE Outcome(Returned(<<None, None>>),
                 <<AmbiguousIndex("get_xy() warning: need locational information "
                       \o "(e.g. i,j) to generate xy, "
                       \o "insufficient index cols passed to interpret: "
                       \o ToString(args))>>)

\* SpatialReference._parse_kij_args: its result and the warnings it raised
ParseKij(args, kwargs) ==
    IF Len(args) >= 2
    THEN LET ij_id == IF kwargs.has /\ ~kwargs.isNone THEN kwargs.ij_id ELSE <<>>
             picked == [n \in 1..Len(ij_id) |-> PyIndex(args, ij_id[n])]
         IN IF kwargs.has /\ ~kwargs.isNone
            THEN IF \E n \in 1..Len(ij_id) : picked[n].none
                 THEN Outcome(Raised(IndexError("tuple index out of range")), <<>>)
                 ELSE IF Len(ij_id) # 2
                 THEN Outcome(Raised(ValueError("wrong number of values to unpack")), <<>>)
                 ELSE Outcome(Returned(<<picked[1], picked[2]>>), <<>>)
            ELSE Outcome(Returned(<<PyIndex(args, -2), PyIndex(args, -1)>>),
                         <<AmbiguousIndex("Position of i and j in index_cols not specified, "
                               \o "assume (i,j) are final two entries in index_cols.")>>)
    ELSE Outcome(Returned(<<None, None>>),
                 <<AmbiguousIndex("get_xy() warning: need locational information "
                       \o "(e.g. i,j) to generate xy, "
                       \o "insufficient index cols passed to interpret: "
                       \o ToString(args))>>)

\* A[i, j] as numpy indexes a 2-D array: each axis from its end when negative
NumpyIndex(A, i, j) ==
    LET row == PyIndex(A, i)
    IN IF row.none THEN None ELSE PyIndex(row.v, j)

\* the grid variants' get_xy indexing [j, i]
GridGetXY_Transposed(X, Y, args, kwargs) ==
    LET p == ParseKij(args, kwargs)
    IN IF p.res.out = "raise" \/ p.res.val[1].none THEN p
       ELSE Outcome(Returned(<<NumpyIndex(X, p.res.val[2].v, p.res.val[1].v),
                               NumpyIndex(Y, p.res.val[2].v, p.res.val[1].v)>>), p.warned)

\* FlopySRSpatialReference.get_xy and FlopyMGSpatialReference.get_xy on the
\* centre arrays X and Y of the wrapped reference
GridGetXY(X, Y, args, kwargs) ==
    LET p == ParseKij(args, kwargs)
    IN IF p.res.out = "raise" THEN p
       ELSE IF p.res.val[1].none THEN Outcome(Returned(<<None, None>>), p.warned)
       ELSE LET i == p.res.val[1].v
                j == p.res.val[2].v
                x == NumpyIndex(X, i, j)
                y == NumpyIndex(Y, i, j)
            IN IF x.none \/ y.none
               THEN Outcome(Raised(IndexError("index is out of bounds")), p.warned)
               ELSE Outcome(Returned(<<x, y>>), p.warned)

RefOf(r) == heap[resolvers[r]._spatial_reference.id]

\* a call that only reads: its result and its warnings
Reads(op, r, input, o) ==
    /\ Len(warns) + Len(o.warned) <= MaxWarns
    /\ warns' = warns \o o.warned
    /\ ret' = Call(op, r, input, o.res)
    /\ UNCHANGED <<heap, resolvers, stream, loggingErrors, lastCall, timers, clock>>
    /\ UNCHANGED <<regVars, legVars>>

_parse_kij_args(r, args, kwargs) ==
    Reads("_parse_kij_args", r, [args |-> args, kwargs |-> kwargs], ParseKij(args, kwargs))

SpatialReference_get_xy(r, args, kwargs) ==
    /\ resolvers[r].cls = "SpatialReference"
    /\ Reads("SpatialReference.get_xy", r, [args |-> args, kwargs |-> kwargs],
             ParseKij(args, kwargs))

FlopySRSpatialReference_get_xy(r, args, kwargs) ==
    /\ resolvers[r].cls = "FlopySRSpatialReference"
    /\ Reads("FlopySRSpatialReference.get_xy", r, [args |-> args, kwargs |-> kwargs],
             GridGetXY(RefOf(r).xcentergrid, RefOf(r).ycentergrid, args, kwargs))

FlopyMGSpatialReference_get_xy(r, args, kwargs) ==
    /\ resolvers[r].cls = "FlopyMGSpatialReference"
    /\ Reads("FlopyMGSpatialReference.get_xy", r, [args |-> args, kwargs |-> kwargs],
             GridGetXY(RefOf(r).xcellcenters, RefOf(r).ycellcenters, args, kwargs))

\* what DictSpatialReference.get_xy is called with: a tuple or a list of
\* keys, or a bare int
ATuple(elems) == [kind |-> "tuple", n |-> 0, elems |-> elems]
AList(elems) == [kind |-> "list", n |-> 0, elems |-> elems]
AInt(n) == [kind |-> "int", n |-> n, elems |-> <<>>]
DictArgs ==
    {ATuple(<<KInt(1), KInt(2)>>), AList(<<KInt(1), KInt(2)>>),
     ATuple(<<KTuple(<<1, 2>>)>>), ATuple(<<KInt(5)>>), ATuple(<<KInt(9)>>),
     ATuple(<<KInt(0), KInt(5)>>), ATuple(<<KInt(5), KInt(0)>>),
     ATuple(<<KInt(0), KInt(9)>>), ATuple(<<KInt(0), KTuple(<<1, 2>>)>>),
     ATuple(<<KInt(4), KInt(6)>>), ATuple(<<KInt(1), KInt(2), KInt(3)>>),
     ATuple(<<>>), AInt(5), AInt(9), AInt(3), ATuple(<<KInt(3)>>)}

\* the key a call argument is, as dict.get hashes and compares it
AsKey(a) ==
    IF a.kind = "int" THEN KInt(a.n)
    ELSE IF \A i \in 1..Len(a.elems) : a.elems[i].kind = "int"
    THEN KTuple([i \in 1..Len(a.elems) |-> a.elems[i].n])
    ELSE NoKey

\* self._spatial_reference.get(key, None)
dict_get(data, key) == IF key \in DOMAIN data THEN data[key] ELSE NoneValue

\* x == 0
EqualsZero(x) == x.kind = "int" /\ x.n = 0

\* f"{args}"
ArgStr(a) == IF a.kind = "int" THEN ToString(a.n) ELSE ToString(a.elems)

\* f"error getting xy from arg:'{args}' - {{err}}".format(err=err)
base_error_msg(a, err) == "error getting xy from arg:'" \o ArgStr(a) \o "' - " \o err

\* DictSpatialReference.get_xy: its result and the log it leaves
DictGetXY(data, st, args0) ==
    LET args == IF args0.kind = "list" THEN ATuple(args0.elems) ELSE args0
        xy == dict_get(data, AsKey(args))
        fail(err) ==
            LET e == logged_exception(st, base_error_msg(args, err),
                                      ValueError(base_error_msg(args, err)))
            IN [res |-> Raised(e.exc), log |-> e.log]
        done(v) == [res |-> Returned(<<Some(v.c[1]), Some(v.c[2])>>), log |-> st]
        second(v) == IF v.isNone THEN fail("still None...") ELSE done(v)
    IN IF xy.isNone
       THEN IF args.kind = "int" THEN fail("no len support")
            ELSE IF Len(args.elems) = 1 THEN second(dict_get(data, args.elems[1]))
            ELSE IF Len(args.elems) = 2 /\ EqualsZero(args.elems[1])
                 THEN second(dict_get(data, args.elems[2]))
            ELSE IF Len(args.elems) = 2 /\ EqualsZero(args.elems[2])
                 THEN second(dict_get(data, args.elems[1]))
            ELSE fail("no value found")
       ELSE done(xy)

DictSpatialReference_get_xy(r, args) ==
    /\ resolvers[r].cls = "DictSpatialReference"
    /\ LogRoom
    /\ LET run == DictGetXY(RefOf(r).data, LogState, args)
       IN /\ stream' = run.log.stream
          /\ loggingErrors' = run.log.loggingErrors
          /\ ret' = Call("DictSpatialReference.get_xy", r, [args |-> args], run.res)
    /\ UNCHANGED <<heap, resolvers, warns, lastCall, timers, clock>>
    /\ UNCHANGED <<regVars, legVars>>

\* floats as exact fractions num/den with den > 0
Rat(num, den) == [num |-> num, den |-> den]
RatSub(a, b) == Rat(a.num * b.den - b.num * a.den, a.den * b.den)
RatDiv(a, b) ==
    IF b.num > 0 THEN Rat(a.num * b.den, a.den * b.num)
    ELSE Rat(-(a.num * b.den), -(a.den * b.num))
RatGt(a, b) == a.num * b.den > b.num * a.den
np_abs(a) == IF a.num < 0 THEN Rat(-a.num, a.den) ELSE a

RECURSIVE Total(_)
Total(d) == IF d = <<>> THEN 0 ELSE Head(d) + Total(Tail(d))
Smallest(d) == CHOOSE v \in {d[k] : k \in DOMAIN d} : \A k \in DOMAIN d : v <= d[k]
Largest(d) == CHOOSE v \in {d[k] : k \in DOMAIN d} : \A k \in DOMAIN d : v >= d[k]

\* ndarray.mean and ndarray.min of a non-empty array
mean(d) == Rat(Total(d), Len(d))
min(d) == Rat(Smallest(d), 1)
max(d) == Rat(Largest(d), 1)

\* a regularity test that compares each array's largest entry, not its
\* mean, with its smallest
GridIsRegular_MaxMin(delr, delc, tolerance) ==
    LET delx == delc
        dely == delr
    IN IF RatGt(np_abs(RatDiv(RatSub(max(delx), min(delx)), mean(delx))), tolerance)
       THEN FALSE
       ELSE IF RatGt(RatDiv(np_abs(RatSub(max(dely), min(dely))), mean(dely)), tolerance)
       THEN FALSE
       ELSE IF RatGt(RatDiv(np_abs(RatSub(mean(delx), mean(dely))), mean(delx)), tolerance)
       THEN FALSE
       ELSE TRUE

\* FlopySRSpatialReference.is_regular_grid and
\* FlopyMGSpatialReference.is_regular_grid on the wrapped reference's arrays
GridIsRegular(delr, delc, tolerance) ==
    LET delx == delc
        dely == delr
    IN IF RatGt(np_abs(RatDiv(RatSub(mean(delx), min(delx)), mean(delx))), tolerance)
       THEN FALSE
       ELSE IF RatGt(RatDiv(np_abs(RatSub(mean(dely), min(dely))), mean(dely)), tolerance)
       THEN FALSE
       ELSE IF RatGt(RatDiv(np_abs(RatSub(mean(delx), mean(dely))), mean(delx)), tolerance)
       THEN FALSE
       ELSE TRUE

\* the tolerances a caller passes: none, a quarter, a half
Tolerances == {Rat(0, 1), Rat(1, 4), Rat(1, 2)}

Answers(op, r, tolerance, flag) ==
    /\ ret' = Call(op, r, [tolerance |-> tolerance], Returned(<<flag>>))
    /\ UNCHANGED <<heap, resolvers, warns, stream, loggingErrors, lastCall, timers, clock>>
    /\ UNCHANGED <<regVars, legVars>>

\* inherited unchanged by DictSpatialReference
SpatialReference_is_regular_grid(r, tolerance) ==
    /\ resolvers[r].cls \in {"SpatialReference", "DictSpatialReference"}
    /\ Answers("SpatialReference.is_regular_grid", r, tolerance, FALSE)

FlopySRSpatialReference_is_regular_grid(r, tolerance) ==
    /\ resolvers[r].cls = "FlopySRSpatialReference"
    /\ Answers("FlopySRSpatialReference.is_regular_grid", r, tolerance,
               GridIsRegular(RefOf(r).delr, RefOf(r).delc, tolerance))

FlopyMGSpatialReference_is_regular_grid(r, tolerance) ==
    /\ resolvers[r].cls = "FlopyMGSpatialReference"
    /\ Answers("FlopyMGSpatialReference.is_regular_grid", r, tolerance,
               GridIsRegular(RefOf(r).delr, RefOf(r).delc, tolerance))

\* the spacing arrays of a grid: 1..MaxCells entries, each in 1..MaxSpacing
Spacings == UNION {[1..n -> 1..MaxSpacing] : n \in 1..MaxCells}

UnitSpacing == <<1, 1>>

InitSR ==
    /\ heap = Heap(UnitSpacing, UnitSpacing)
    /\ resolvers = <<>>
    /\ ret = Call("none", 0, CandNone, Returned(<<>>))

\* the factory applied to each candidate of a list in turn
RECURSIVE Build(_, _, _)
Build(rs, st, cands) ==
    IF cands = <<>> THEN [resolvers |-> rs, log |-> st]
    ELSE LET run == InitializeRun(rs, st, Head(cands))
         IN Build(run.resolvers, run.log, Tail(cands))

\* one resolver of each variant, made by the factory
Built ==
    Build(<<>>, [stream |-> <<>>, loggingErrors |-> 0],
          <<CandNone, CandObj("sr"), CandObj("mg"), CandObj("dict")>>)

InitBuilt(delr, delc) ==
    /\ heap = Heap(delr, delc)
    /\ resolvers = Built.resolvers
    /\ stream = Built.log.stream
    /\ loggingErrors = Built.log.loggingErrors
    /\ ret = Call("none", 0, CandNone, Returned(<<>>))

Idle == InitReg /\ InitRest /\ Constructed(LogFile, FALSE)
Init == Idle /\ InitLog /\ InitSR
InitXY == Idle /\ InitBuilt(UnitSpacing, UnitSpacing)
InitGrid == Idle /\ \E delr \in Spacings, delc \in Spacings : InitBuilt(delr, delc)
InitLegacy == InitReg /\ InitRest /\ InitLog /\ InitLeg /\ InitSR

\* C1: with legacy mode enabled, after any sequence of get_logger calls for a
\* name, the named logger's handlers are exactly those of the most recent call:
\* one file handler on filename (or on "<name>.log" when filename is empty),
\* plus one console handler if and only if echo was true; every handler an
\* earlier call attached has been removed and closed.
C1_HandlersOfLatestCall ==
    \A n \in Names :
        (_old_style_logging /\ lastGet[n].called) =>
            LET hs == handlers[n]
                want == IF lastGet[n].filename = <<>>
                        THEN <<n, ".log">> ELSE lastGet[n].filename
                live == {hs[i].id : i \in 1..Len(hs)}
            IN /\ Len(hs) = (IF lastGet[n].echo THEN 2 ELSE 1)
               /\ hs[1].kind = "FileHandler" /\ hs[1].target = want
               /\ lastGet[n].echo => hs[2].kind = "StreamHandler"
               /\ live \cap closed = {}
               /\ (everAttached[n] \ live) \subseteq closed

NextReg ==
    \/ set_old_style_logging
    \/ \E name \in Names, filename \in Filenames, echo \in BOOLEAN :
          get_logger(name, filename, echo)

SpecReg == Init /\ [][NextReg]_vars

\* C2: method(message, *args) hands the wrapped logger the message with exactly
\* the caller's positional args as format arguments, so the handler receives
\* one record at that severity whose text is message formatted with args; with
\* no args and no placeholder the text is the message unchanged.
C2_FormatsWithCallerArgs ==
    lastCall.method \in Levels =>
        LET a == [i \in 1..Len(lastCall.args) |-> PyStr(lastCall.args[i])]
            want == getMessage(lastCall.message, a)
        IN want.ok =>
             /\ Len(stream) = lastCall.n + 1
             /\ stream[Len(stream)] = [levelname |-> lastCall.method, text |-> want.text]

\* C4: a timed block made by timed_info(message) and used as a scoped context
\* emits exactly one "starting {message}" entry at creation and exactly one
\* "finished {message}... took: <duration>" entry at exit, in that order; the
\* finished entry carries " with error <Kind>(<value>)" if and only if a
\* failure ended the block, and that failure keeps propagating.
C4_TimedBlockEntries ==
    \A i \in 1..Len(timers) :
        LET t == timers[i]
            info_(text) == [levelname |-> "INFO", text |-> text]
        IN /\ t.startLog = <<info_("starting " \o Join(t.message))>>
           /\ (t.scope = "closed" /\ t.finishes = 0) =>
                 t.exitLog = <<info_("finished " \o Join(t.message)
                                       \o (IF t.ended # NoExc
                                           THEN " with error " \o t.ended.type
                                                  \o "(" \o t.ended.value \o ")"
                                           ELSE "")
                                       \o " took: " \o ToString(t.toc - t.tic))>>
           /\ t.scope = "closed" => t.propagated = t.ended

\* completions of a timer so far: explicit finish() calls and its scoped exit
Completions(t) == t.finishes + (IF t.scope = "closed" THEN 1 ELSE 0)

RECURSIVE AllCompletions(_)
AllCompletions(ts) ==
    IF ts = <<>> THEN 0 ELSE Completions(Head(ts)) + AllCompletions(Tail(ts))

RECURSIVE RepeatCompletions(_)
RepeatCompletions(ts) ==
    IF ts = <<>> THEN 0
    ELSE (IF Completions(Head(ts)) > 1 THEN Completions(Head(ts)) - 1 ELSE 0)
            + RepeatCompletions(Tail(ts))

\* the 'finished ... took: <duration>' entry of timer t completed at toc
\* while its block ended with exc
FinishedEntry(t, exc, toc) ==
    [levelname |-> "INFO",
     text |-> "finished " \o Join(t.message)
                \o (IF exc # NoExc
                    THEN " with error " \o exc.type \o "(" \o exc.value \o ")"
                    ELSE "")
                \o " took: " \o ToString(toc - t.tic)]

FinishedEntries ==
    {FinishedEntry([message |-> m, tic |-> tic], exc, toc) :
        m \in TimerMessages, exc \in Excs, tic \in 0..MaxClock, toc \in 0..MaxClock}

AlreadyFinished(t) ==
    [category |-> "UserWarning",
     text |-> "TimerLog(" \o Join(t.message) \o ") already finished"]

\* C11, counted: after k completions in all there are exactly k finished
\* entries in the log, and one 'already finished' warning for every completion
\* of a timer after its first
C11_Counts ==
    /\ Cardinality({n \in DOMAIN stream : stream[n] \in FinishedEntries})
          = AllCompletions(timers)
    /\ Len(warns) = RepeatCompletions(timers)

\* C11, step by step: a completion of timer i (explicit finish() or scoped
\* exit) logs one 'finished ... took: <duration>' entry, the duration measured
\* from the timestamp recorded at creation; it raises one 'already finished'
\* warning when the timer was completed before, and no warning when not
C11_Step ==
    \A i \in 1..Len(timers) :
        Completions(timers'[i]) = Completions(timers[i]) + 1 =>
            /\ clock' >= clock
            /\ Appended = <<FinishedEntry(timers[i], timers'[i]._error, clock')>>
            /\ warns' = IF Completions(timers[i]) >= 1
                        THEN Append(warns, AlreadyFinished(timers[i]))
                        ELSE warns

\* C11: for a TimerLog, every completion logs one finished entry with the
\* duration since creation; the n-th completion for n >= 2 also raises one
\* 'already finished' warning before logging and the first raises none; so
\* after k completions there are exactly k finished entries and k-1 warnings.
C11_EveryCompletionLogs == []C11_Counts /\ [][C11_Step]_vars

FileBacked == self_filename # ""

IsLogLine(line, ph) ==
    \/ line.text = " starting: " \o ph
    \/ \E d \in 0..MaxClock :
          line.text = " finished: " \o ph \o " took: " \o ToString(d)

\* the lines of the file that log(ph) wrote
LinesOf(ph) == SelectSeq(f.lines, LAMBDA l : IsLogLine(l, ph))

\* C3: on the file Logger, over any sequence of log calls (the constructor's
\* "opening ..." call counted), the k-th log(p) writes a "starting: p" line and
\* records the start time when k is odd, and writes "finished: p took: <time
\* since that start>" and forgets p when k is even; so p is in flight exactly
\* when it was logged an odd number of times, and a log call with another
\* phrase never changes p's entry.
C3_LogAlternates ==
    (FileBacked /\ ~f.closed) =>
        \A ph \in AllPhrases :
            LET ts == logTimes[ph]
                ls == LinesOf(ph)
            IN /\ Len(ls) = Len(ts)
               /\ \A k \in 1..Len(ts) :
                     ls[k] = IF k % 2 = 1
                             THEN Line(ts[k], " starting: " \o ph)
                             ELSE Line(ts[k], " finished: " \o ph \o " took: "
                                                \o ToString(ts[k] - ts[k - 1]))
               /\ (ph \in DOMAIN items) <=> (Len(ts) % 2 = 1)
               /\ ph \in DOMAIN items => items[ph] = ts[Len(ts)]

\* a phrase logged a third time (timing restarted after a nonzero duration)
\* while another phrase is in flight
C3_ThirdCallRestarts ==
    /\ FileBacked /\ ~f.closed
    /\ \E ph \in Phrases :
          /\ Len(logTimes[ph]) = 3
          /\ logTimes[ph][2] > logTimes[ph][1]
          /\ ph \in DOMAIN items
    /\ Opening(LogFile) \in DOMAIN items

\* C10 as stated: on a file-backed Logger, lraise(message) in any state writes
\* one ERROR line holding message to the file, then closes the file, then
\* raises an exception carrying message.
C10_LraiseInAnyState ==
    (FileBacked /\ lastOp.op = "lraise") =>
        /\ Len(f.lines) = lastOp.nlines + 1
        /\ f.lines[Len(f.lines)] = Line(lastOp.t, " ERROR: " \o lastOp.arg)
        /\ f.closed
        /\ lastOp.raised = Exception(lastOp.arg)

\* C10, amended: lraise(message) always raises and leaves the file closed; when
\* the file was still open it first wrote one ERROR line holding message and
\* the exception carries message; when an earlier lraise had closed the file it
\* writes nothing and the exception is the closed file's ValueError.  A file
\* that holds an ERROR line is closed in every later state.
C10_LraiseClosesAndRaises ==
    /\ (FileBacked /\ lastOp.op = "lraise") =>
          /\ f.closed
          /\ lastOp.raised # NoExc
          /\ IF ~lastOp.wasClosed
             THEN /\ Len(f.lines) = lastOp.nlines + 1
                  /\ f.lines[Len(f.lines)] = Line(lastOp.t, " ERROR: " \o lastOp.arg)
                  /\ lastOp.raised = Exception(lastOp.arg)
             ELSE /\ Len(f.lines) = lastOp.nlines
                  /\ lastOp.raised = ClosedFileError
    /\ (\E i \in 1..Len(f.lines), m \in ErrorTexts :
            f.lines[i].text = " ERROR: " \o m) => f.closed

\* lraise on an open file, followed by another Logger call on the closed one
C10_UsedAfterLraise ==
    /\ FileBacked /\ f.closed
    /\ lastOp.op \in {"log", "lraise"} /\ lastOp.wasClosed
    /\ \E i \in 1..Len(f.lines) : f.lines[i].text = " ERROR: boom"

\* what a call appended to the handler's stream and to the warnings
NewEntries == SubSeq(stream, ret.nstream + 1, Len(stream))
NewWarnings == SubSeq(warns, ret.nwarns + 1, Len(warns))

\* C5: DictSpatialReference.get_xy(args) returns the first two components of
\* the value stored under args when args is a key; on a miss it tries the sole
\* element of a one-element args, or the other entry of a two-element args
\* whose one entry equals 0, and returns the coordinates found under that key;
\* when neither yields a value (also for args of another length and for args
\* without a length) it fails with a ValueError whose message includes the
\* argument, after logging that message at error severity.
C5_DictLookup ==
    ret.op = "DictSpatialReference.get_xy" =>
        LET a == ret.input.args
            d == RefOf(ret.r).data
            HasValue(k) == k \in DOMAIN d /\ ~d[k].isNone
            e == a.elems
            fallback ==
                IF a.kind = "int" THEN {}
                ELSE IF Len(e) = 1 THEN {e[1]}
                ELSE IF Len(e) = 2 /\ e[1] = KInt(0) THEN {e[2]}
                ELSE IF Len(e) = 2 /\ e[2] = KInt(0) THEN {e[1]}
                ELSE {}
            found == IF HasValue(AsKey(a)) THEN {AsKey(a)}
                     ELSE {k \in fallback : HasValue(k)}
            shown == IF a.kind = "int" THEN ToString(a.n) ELSE ToString(e)
        IN IF found # {}
           THEN /\ \E k \in found :
                     ret.res = Returned(<<Some(d[k].c[1]), Some(d[k].c[2])>>)
                /\ NewEntries = <<>>
           ELSE /\ ret.res.out = "raise"
                /\ ret.res.exc.type = "ValueError"
                /\ \E err \in {"no len support", "no value found", "still None..."} :
                     ret.res.exc.value =
                        "error getting xy from arg:'" \o shown \o "' - " \o err
                /\ NewEntries = <<[levelname |-> "ERROR", text |-> ret.res.exc.value]>>

\* C12: in DictSpatialReference.get_xy, when args is a key of the dictionary
\* but its stored value is None, the call fails with a ValueError that is
\* distinct from the errors raised for a key that is not found at all ('no
\* value found', 'no len support'), for every shape of args.
C12_NullValueDistinctError ==
    ret.op = "DictSpatialReference.get_xy" =>
        LET a == ret.input.args
            d == RefOf(ret.r).data
            shown == IF a.kind = "int" THEN ToString(a.n) ELSE ToString(a.elems)
            notFound == {"error getting xy from arg:'" \o shown \o "' - " \o err :
                            err \in {"no value found", "no len support"}}
        IN (AsKey(a) \in DOMAIN d /\ d[AsKey(a)].isNone) =>
              /\ ret.res.out = "raise"
              /\ ret.res.exc.type = "ValueError"
              /\ ret.res.exc.value \notin notFound

\* C6: initialize_spatial_reference maps a candidate by the first matching
\* rule: None gives the null variant; an object exposing delr, delc,
\* xcentergrid, ycentergrid gives grid-object A; one exposing delr, delc,
\* xcellcenters, ycellcenters gives grid-object B; a mapping gives the
\* dictionary variant with one informational log entry; a resolver is returned
\* as the same instance; anything else fails with a TypeError after an
\* error-severity log entry, and no resolver is created.
C6_FactoryRules ==
    ret.op = "initialize_spatial_reference" =>
        LET c == ret.input
            has(names) == c.kind = "obj" /\ names \subseteq heap[c.id].attrs
            rule == IF c.kind = "None" THEN "SpatialReference"
                    ELSE IF has({"delr", "delc", "xcentergrid", "ycentergrid"})
                    THEN "FlopySRSpatialReference"
                    ELSE IF has({"delr", "delc", "xcellcenters", "ycellcenters"})
                    THEN "FlopyMGSpatialReference"
                    ELSE IF c.kind = "obj" /\ heap[c.id].type = "dict"
                    THEN "DictSpatialReference"
                    ELSE IF c.kind = "resolver" THEN "same"
                    ELSE "TypeError"
        IN CASE rule = "same" ->
                  /\ ret.res = Returned(<<c.r>>)
                  /\ Len(resolvers) = ret.nresolvers
                  /\ NewEntries = <<>>
             [] rule = "TypeError" ->
                  /\ ret.res.out = "raise" /\ ret.res.exc.type = "TypeError"
                  /\ Len(resolvers) = ret.nresolvers
                  /\ Len(NewEntries) = 1 /\ NewEntries[1].levelname = "ERROR"
             [] OTHER ->
                  /\ ret.res = Returned(<<ret.nresolvers + 1>>)
                  /\ Len(resolvers) = ret.nresolvers + 1
                  /\ resolvers[Len(resolvers)].cls = rule
                  /\ resolvers[Len(resolvers)]._spatial_reference = c
                  /\ IF rule = "DictSpatialReference"
                     THEN Len(NewEntries) = 1 /\ NewEntries[1].levelname = "INFO"
                     ELSE NewEntries = <<>>

\* args[k] for a position k within args, counted from the end when negative
At(args, k) == IF k >= 0 THEN args[k + 1] ELSE args[Len(args) + k + 1]
Position(args, k) == -Len(args) <= k /\ k < Len(args)

\* the (row, column) pair generic index parsing is to give, or <<>> for the
\* null pair
Indices(args, kw) ==
    IF Len(args) < 2 THEN <<>>
    ELSE IF kw.has /\ ~kw.isNone THEN <<At(args, kw.ij_id[1]), At(args, kw.ij_id[2])>>
    ELSE <<args[Len(args) - 1], args[Len(args)]>>

\* C7 as stated: _parse_kij_args on any resolver: with at least 2 args and an
\* ij_id it returns (args[ij_id[0]], args[ij_id[1]]) and warns nothing; with
\* at least 2 args and ij_id absent or None it returns (args[-2], args[-1])
\* and raises exactly one AmbiguousIndex warning; with fewer than 2 args it
\* returns (None, None) and raises exactly one AmbiguousIndex warning; it
\* never raises for these inputs, and the null variant's get_xy returns
\* exactly this pair.
C7_ParseKijNeverRaises ==
    ret.op \in {"_parse_kij_args", "SpatialReference.get_xy"} =>
        LET args == ret.input.args
            kw == ret.input.kwargs
            one == /\ Len(NewWarnings) = 1
                   /\ NewWarnings[1].category = "AmbiguousIndex"
        IN /\ ret.res.out = "return"
           /\ IF Len(args) >= 2 /\ kw.has /\ ~kw.isNone
              THEN /\ \A n \in 1..2 : Position(args, kw.ij_id[n])
                   /\ ret.res.val = <<Some(At(args, kw.ij_id[1])),
                                      Some(At(args, kw.ij_id[2]))>>
                   /\ NewWarnings = <<>>
              ELSE IF Len(args) >= 2
              THEN ret.res.val = <<Some(args[Len(args) - 1]), Some(args[Len(args)])>> /\ one
              ELSE ret.res.val = <<None, None>> /\ one

\* C7, amended: as stated when both entries of ij_id are positions of args
\* (counted from the end when negative); when an entry of ij_id is not a
\* position of args the call raises IndexError and warns nothing.  The call
\* on the null variant's get_xy has the same outcome.
C7_ParseKij ==
    ret.op \in {"_parse_kij_args", "SpatialReference.get_xy"} =>
        LET args == ret.input.args
            kw == ret.input.kwargs
            given == kw.has /\ ~kw.isNone
            one == /\ Len(NewWarnings) = 1
                   /\ NewWarnings[1].category = "AmbiguousIndex"
        IN /\ ret.op = "SpatialReference.get_xy" =>
                resolvers[ret.r].cls = "SpatialReference"
           /\ IF Len(args) >= 2 /\ given
              THEN /\ NewWarnings = <<>>
                   /\ IF \A n \in 1..2 : Position(args, kw.ij_id[n])
                      THEN ret.res = Returned(<<Some(At(args, kw.ij_id[1])),
                                                Some(At(args, kw.ij_id[2]))>>)
                      ELSE ret.res.out = "raise" /\ ret.res.exc.type = "IndexError"
              ELSE IF Len(args) >= 2
              THEN /\ ret.res = Returned(<<Some(args[Len(args) - 1]),
                                           Some(args[Len(args)])>>)
                   /\ one
              ELSE /\ ret.res = Returned(<<None, None>>)
                   /\ one

\* a three-element args parsed with an ij_id counted from the end, by the
\* dictionary variant's resolver
C7_ParsedWithIjId ==
    /\ ret.op = "_parse_kij_args"
    /\ resolvers[ret.r].cls = "DictSpatialReference"
    /\ ret.input.args = <<1, 0, 1>>
    /\ ret.input.kwargs = KwIj(<<-1, 0>>)
    /\ ret.res.out = "return"

\* C8, the result: a grid variant's get_xy returns (None, None) exactly when
\* index parsing gives no usable indices, and otherwise (X[row, column],
\* Y[row, column]) of xcentergrid/ycentergrid (A) or xcellcenters/ycellcenters
\* (B), for a (row, column) that lies in the grid
C8_GridResult ==
    ret.op \in {"FlopySRSpatialReference.get_xy", "FlopyMGSpatialReference.get_xy"} =>
        LET args == ret.input.args
            kw == ret.input.kwargs
            o == RefOf(ret.r)
            useA == ret.op = "FlopySRSpatialReference.get_xy"
            X == IF useA THEN o.xcentergrid ELSE o.xcellcenters
            Y == IF useA THEN o.ycentergrid ELSE o.ycellcenters
            valid == kw.has /\ ~kw.isNone => \A n \in 1..2 : Position(args, kw.ij_id[n])
            ij == Indices(args, kw)
        IN /\ resolvers[ret.r].cls =
                (IF useA THEN "FlopySRSpatialReference" ELSE "FlopyMGSpatialReference")
           /\ valid =>
                IF ij = <<>> THEN ret.res = Returned(<<None, None>>)
                ELSE (Position(X, ij[1]) /\ Position(X[1], ij[2])) =>
                        ret.res = Returned(<<Some(At(At(X, ij[1]), ij[2])),
                                             Some(At(At(Y, ij[1]), ij[2]))>>)

\* C8: the result above, and the call never modifies the grid arrays nor any
\* resolver's wrapped reference
C8_GridGetXY ==
    /\ []C8_GridResult
    /\ [][heap' = heap /\ \A r \in 1..Len(resolvers) : resolvers'[r] = resolvers[r]]_vars

\* both grid variants asked for an off-diagonal cell, one of them through ij_id
C8_CellLookedUp ==
    /\ ret.op = "FlopyMGSpatialReference.get_xy"
    /\ ret.input.args = <<1, 0, 1>>
    /\ ret.input.kwargs = KwIj(<<1, 2>>)
    /\ ret.res = Returned(<<Some(3), Some(1)>>)

\* the spacing arrays behind the resolver that answered
Asked == ret.op \in {"FlopySRSpatialReference.is_regular_grid",
                     "FlopyMGSpatialReference.is_regular_grid"}
Uniform(d) == \A k \in DOMAIN d : d[k] = d[1] /\ d[1] > 0

\* the entries of d vary by more than tol, measured against the largest entry
Varies(d, tol) == (Largest(d) - Smallest(d)) * tol.den > tol.num * Largest(d)

\* the mean of d exceeds its smallest entry by more than tol times the mean
MeanAboveMin(d, tol) ==
    (Total(d) - Len(d) * Smallest(d)) * tol.den > tol.num * Total(d)

\* the means of x and y differ by more than tol times the mean of x
MeansDiffer(x, y, tol) ==
    LET diff == Total(x) * Len(y) - Total(y) * Len(x)
    IN (IF diff < 0 THEN -diff ELSE diff) * tol.den > tol.num * Total(x) * Len(y)

\* C9 as stated: is_regular_grid(tolerance) on a grid-object resolver returns
\* True when every row spacing and every column spacing equals one common
\* positive value, and False whenever the entries of the row-spacing array
\* or of the column-spacing array vary among themselves by more than
\* tolerance (relative), or the mean row spacing differs from the mean column
\* spacing by more than tolerance; on the null and dictionary variants it
\* returns False for every tolerance.
C9_FalseWhenSpacingVaries ==
    /\ ret.op = "SpatialReference.is_regular_grid" => ret.res = Returned(<<FALSE>>)
    /\ Asked =>
        LET delr == RefOf(ret.r).delr
            delc == RefOf(ret.r).delc
            tol == ret.input.tolerance
        IN /\ (Uniform(delr) /\ Uniform(delc) /\ delr[1] = delc[1]) =>
                ret.res = Returned(<<TRUE>>)
           /\ (Varies(delr, tol) \/ Varies(delc, tol) \/ MeansDiffer(delc, delr, tol)) =>
                ret.res = Returned(<<FALSE>>)

\* C9, amended: on a grid-object resolver is_regular_grid(tolerance) returns
\* False exactly when the mean of delc exceeds the smallest entry of delc by
\* more than tolerance times that mean, or likewise for delr, or the means of
\* delc and delr differ by more than tolerance times the mean of delc; so it
\* returns True when all spacings equal one common positive value; on the
\* null and dictionary variants it returns False for every tolerance.
C9_RegularByMeans ==
    /\ ret.op = "SpatialReference.is_regular_grid" => ret.res = Returned(<<FALSE>>)
    /\ Asked =>
        LET delr == RefOf(ret.r).delr
            delc == RefOf(ret.r).delc
            tol == ret.input.tolerance
        IN /\ ret.res = Returned(<<~(\/ MeanAboveMin(delc, tol)
                                     \/ MeanAboveMin(delr, tol)
                                     \/ MeansDiffer(delc, delr, tol))>>)
           /\ (Uniform(delr) /\ Uniform(delc) /\ delr[1] = delc[1]) =>
                ret.res = Returned(<<TRUE>>)

\* a grid whose row heights are 1, 1, 2 is regular at tolerance 1/4
C9_UnevenGridRegular ==
    /\ ret.op = "FlopySRSpatialReference.is_regular_grid"
    /\ RefOf(ret.r).delc = <<1, 1, 2>>
    /\ RefOf(ret.r).delr = <<1, 1, 2>>
    /\ ret.input.tolerance = Rat(1, 4)
    /\ ret.res = Returned(<<TRUE>>)

NextFactory ==
    \/ \E cand \in Candidates : initialize_spatial_reference(cand)

SpecFactory == Init /\ [][NextFactory]_vars

NextXY ==
    \/ \E r \in 1..Len(resolvers), a \in IntArgs, kw \in Kwargs : _parse_kij_args(r, a, kw)
    \/ \E r \in 1..Len(resolvers), a \in IntArgs, kw \in Kwargs :
          SpatialReference_get_xy(r, a, kw)
    \/ \E r \in 1..Len(resolvers), a \in IntArgs, kw \in Kwargs :
          FlopySRSpatialReference_get_xy(r, a, kw)
    \/ \E r \in 1..Len(resolvers), a \in IntArgs, kw \in Kwargs :
          FlopyMGSpatialReference_get_xy(r, a, kw)
    \/ \E r \in 1..Len(resolvers), a \in DictArgs : DictSpatialReference_get_xy(r, a)

SpecXY == InitXY /\ [][NextXY]_vars

NextGrid ==
    \/ \E r \in 1..Len(resolvers), tol \in Tolerances :
          SpatialReference_is_regular_grid(r, tol)
    \/ \E r \in 1..Len(resolvers), tol \in Tolerances :
          FlopySRSpatialReference_is_regular_grid(r, tol)
    \/ \E r \in 1..Len(resolvers), tol \in Tolerances :
          FlopyMGSpatialReference_is_regular_grid(r, tol)

SpecGrid == InitGrid /\ [][NextGrid]_vars

NextLeg ==
    \/ \E ph \in AllPhrases : Logger_log(ph)
    \/ \E ph \in {"note"} : Logger_statement(ph)
    \/ \E m \in ErrorTexts : Logger_warn(m)
    \/ \E m \in ErrorTexts : Logger_lraise(m)

SpecLeg == InitLegacy /\ [][NextLeg]_vars

NextSL ==
    \/ \E m \in Messages, a \in ArgLists : debug(m, a)
    \/ \E m \in Messages, a \in ArgLists : info(m, a)
    \/ \E m \in Messages, a \in ArgLists : warning(m, a)
    \/ \E m \in Messages, a \in ArgLists : error(m, a)
    \/ \E m \in Messages, a \in ArgLists : critical(m, a)
    \/ \E m \in TimerMessages : timed_info(m)
    \/ \E i \in 1..Len(timers) : finish(i)
    \/ \E i \in 1..Len(timers), exc \in Excs : TimerLog__exit__(i, exc)

SpecSL == Init /\ [][NextSL]_vars
====
